---- MODULE Spec2Model ----
(***************************************************************************)
(* ITSM incident analytics: the tools of itsm_analysis/tools/tools.py, the *)
(* two agents that wire them through a parallel map, and run_all_agents.   *)
(*                                                                         *)
(* Representation of values                                                *)
(*   durations, handle times : integer ticks, TicksPerHour ticks = 1 hour  *)
(*                             (every value used is a dyadic rational, so  *)
(*                             the floats of the code hold them exactly)   *)
(*   timestamps              : day number >= 0 (day 0 is a Monday)         *)
(*   missing values          : the negative markers NaN, PyNone, NaT and   *)
(*                             Unparseable below                           *)
(*   ratios, percentages     : fractions [num, den] in lowest terms, for   *)
(*                             the float quotient of num and den; den = 0  *)
(*                             is the float infinity; round(x, 2) follows  *)
(*                             the side of num / den the float is on       *)
(***************************************************************************)
EXTENDS Integers, Sequences, FiniteSets, TLC

VARIABLES
    data,                \* the snapshot: the rows of pd.DataFrame(data)
    sla_definitions,     \* the SLA table handed to check_sla_breach
    str_sla_definitions, \* check_sla_breach's normalised table
    pc,                  \* position in the running function
    row_i,               \* number of rows the running loop has consumed
    breaches,            \* check_sla_breach: indicator records
    breached_details,    \* check_sla_breach: breach records
    total_sla_breaches,  \* check_sla_breach: counter
    weekly,              \* compute_weekly_trend: the weekly frame
    inconsistencies,     \* detect_priority_inconsistencies: records
    entry,               \* the function called: a tool, an agent's run, run_all_agents
    outputs,             \* RunnableMap: the state of each keyed step
    sla_output,          \* run_all_agents: what SLAPriorityAgent.run returned
    cat_output,          \* run_all_agents: what CategorizationAgent.run returned
    mappings,            \* CategorizationAgent.run: the mappings file as loaded
    ret                  \* value returned (or the error raised)

vars == <<data, sla_definitions, str_sla_definitions, pc, row_i, breaches,
          breached_details, total_sla_breaches, weekly, inconsistencies,
          entry, outputs, sla_output, cat_output, mappings, ret>>

agentVars == <<entry, outputs, sla_output, cat_output, mappings>>

-----------------------------------------------------------------------------
(* Bounds of the model *)

MaxRows == 2
MaxTrendRows == 5
MaxAgentRows == 2
MaxReportRows == 4

-----------------------------------------------------------------------------
(* Values *)

TicksPerHour == 64

\* float('nan') in Handle_Time_hrs: pd.notna() is false for it
NaN == -1
\* Python None: pd.to_datetime(None) is None, dict.get() of a missing key
PyNone == -1
\* pandas NaT: pd.to_datetime(NaT) is NaT, which is truthy
NaT == -2
\* a string pd.to_datetime cannot parse (it raises)
Unparseable == -3

NoError == "none"

EmptyDict == [x \in {} |-> 0]

DictPut(d, k, v) == [x \in (DOMAIN d) \cup {k} |-> IF x = k THEN v ELSE d[x]]

DictGet(d, k) == IF k \in DOMAIN d THEN d[k] ELSE PyNone

RECURSIVE Gcd(_, _)
Gcd(a, b) == IF b = 0 THEN a ELSE Gcd(b, a % b)

\* an exact fraction in lowest terms
Frac(n, d) == LET g == Gcd(n, d) IN [num |-> n \div g, den |-> d \div g]

Inf == [num |-> 1, den |-> 0]

\* r > a/b
FracGt(r, a, b) == r.num * b > a * r.den

\* floor(log2(n / d)) of a positive fraction
RECURSIVE FloorLog2(_, _)
FloorLog2(n, d) ==
    IF n < d THEN FloorLog2(2 * n, d) - 1
    ELSE IF n >= 2 * d THEN FloorLog2(n, 2 * d) + 1
    ELSE 0

\* the number of factors 2 of d
RECURSIVE TwoAdic(_)
TwoAdic(d) == IF d % 2 = 0 THEN 1 + TwoAdic(d \div 2) ELSE 0

RECURSIVE Pow2(_)
Pow2(e) == IF e = 0 THEN 1 ELSE 2 * Pow2(e - 1)

\* 2^e modulo m
RECURSIVE PowMod2(_, _)
PowMod2(e, m) == IF e = 0 THEN 1 % m ELSE (2 * PowMod2(e - 1, m)) % m

\* the bits of a double's significand
MantissaBits == 53

\* a / b of two floats that hold n and d exactly is the double nearest to
\* n / d: +1 when that double is above n / d, -1 when below, 0 when n / d
\* is a double (r in lowest terms, positive)
FloatError(r) ==
    LET t == TwoAdic(r.den)
        odd == r.den \div Pow2(t)
        e == (MantissaBits - 1) - FloorLog2(r.num, r.den)
        rest == ((r.num % odd) * PowMod2(e - t, odd)) % odd
    IN  IF odd = 1 THEN 0 ELSE IF 2 * rest > odd THEN 1 ELSE -1

\* round(r, 2) of the float quotient: to hundredths; a quotient that is
\* exactly halfway goes to the even hundredth when the float holds it
\* exactly, else to the side the float is on; inf stays inf
Round2(r) ==
    IF r.den = 0 THEN r
    ELSE LET n == 100 * r.num
             q == n \div r.den
             m == n % r.den
             up == IF 2 * m > r.den THEN 1
                   ELSE IF 2 * m < r.den THEN 0
                   ELSE IF FloatError(r) = 0 THEN q % 2
                   ELSE IF FloatError(r) = 1 THEN 1
                   ELSE 0
         IN  Frac(q + up, 100)

-----------------------------------------------------------------------------
(* SLA table keys *)

TupleKey(i, u) == [t |-> <<i, u>>]
StrKey(s) == [s |-> s]
IsTuple(k) == "t" \in DOMAIN k

\* f"{k[0]}_{k[1]}"
FormatKey(i, u) == ToString(i) \o "_" \o ToString(u)

\* str(k): a tuple prints as "(i, u)", a string is itself
PyStr(k) == IF IsTuple(k)
            THEN "(" \o ToString(k.t[1]) \o ", " \o ToString(k.t[2]) \o ")"
            ELSE k.s

\* check_sla_breach's key of one table entry
NormKey(k) == IF IsTuple(k) THEN FormatKey(k.t[1], k.t[2]) ELSE PyStr(k)

RECURSIVE NormalizeFrom(_, _, _)
NormalizeFrom(defs, n, d) ==
    IF n > Len(defs) THEN d
    ELSE NormalizeFrom(defs, n + 1, DictPut(d, NormKey(defs[n].k), defs[n].v))

\* the loop building str_sla_definitions
NormalizeKeys(defs) == NormalizeFrom(defs, 1, EmptyDict)

-----------------------------------------------------------------------------
(* check_sla_breach, one row *)

NotNa(x) == x # NaN

\* try: pd.to_datetime(raw) except: None
ToDatetimeOrNone(raw) == IF raw = Unparseable THEN PyNone ELSE raw

OpenTimeTruthy(t) == t # PyNone

\* bool(timedelta): a zero duration is falsy, None is falsy
DurationTruthy(d) == d # PyNone /\ d # 0

Isoformat(t) == [iso |-> t]

\* the guard of the evaluation block
Evaluated(handle_time, open_time, sla_duration) ==
    NotNa(handle_time) /\ OpenTimeTruthy(open_time) /\ DurationTruthy(sla_duration)

\* timedelta(hours=handle_time) > sla_duration
IsBreachGeq(handle_time, sla_duration) == handle_time >= sla_duration

IsBreach(handle_time, sla_duration) == handle_time > sla_duration

\* handle_time / sla_hours if sla_hours > 0 else inf
BreachRatio(handle_time, sla_duration) ==
    IF sla_duration > 0 THEN Frac(handle_time, sla_duration) ELSE Inf

SeverityGeq(ratio) ==
    IF ~FracGt(Frac(20, 10), ratio.num, ratio.den) THEN "Critical"
    ELSE IF ~FracGt(Frac(15, 10), ratio.num, ratio.den) THEN "High"
    ELSE IF ~FracGt(Frac(12, 10), ratio.num, ratio.den) THEN "Medium"
    ELSE "Low"

Severity(ratio) ==
    IF FracGt(ratio, 20, 10) THEN "Critical"
    ELSE IF FracGt(ratio, 15, 10) THEN "High"
    ELSE IF FracGt(ratio, 12, 10) THEN "Medium"
    ELSE "Low"

SlaAcc(b, d, n) == [breaches |-> b, breached_details |-> d, total_sla_breaches |-> n]

\* the body of `for _, row in df.iterrows()`
SlaRow(acc, row, strd) ==
    LET impact == row.Impact_enc
        urgency == row.Urgency_enc
        handle_time == row.Handle_Time_hrs
        open_time == ToDatetimeOrNone(row.Open_Time__)
        key == FormatKey(impact, urgency)
        sla_duration == DictGet(strd, key)
    IN  IF Evaluated(handle_time, open_time, sla_duration)
        THEN LET is_breach == IsBreach(handle_time, sla_duration)
                 breach_ratio == BreachRatio(handle_time, sla_duration)
                 detail == [Incident_ID |-> row.Incident_ID,
                            Priority_enc |-> row.Priority_enc,
                            Impact_enc |-> impact,
                            Urgency_enc |-> urgency,
                            Handle_Time_hrs |-> handle_time,
                            SLA_Duration_hrs |-> sla_duration,
                            Breach_Time |-> Isoformat(open_time),
                            Severity |-> Severity(breach_ratio),
                            Breach_Ratio |-> Round2(breach_ratio)]
                 indicator == [Incident_ID |-> row.Incident_ID,
                               breach |-> is_breach,
                               Breach_Time |-> Isoformat(open_time)]
             IN  SlaAcc(Append(acc.breaches, indicator),
                        IF is_breach THEN Append(acc.breached_details, detail)
                                     ELSE acc.breached_details,
                        acc.total_sla_breaches + (IF is_breach THEN 1 ELSE 0))
        ELSE acc

\* (total_sla_breaches / total_incidents * 100) if total_incidents > 0 else 0
Percentage(n_breaches, total_incidents, n_evaluated) ==
    IF total_incidents > 0 THEN Frac(n_breaches * 100, total_incidents) ELSE Frac(0, 1)

\* the returned summary
SlaSummary(acc, total_incidents) ==
    [breaches |-> acc.breaches,
     breached_details |-> acc.breached_details,
     total_incidents_analyzed |-> total_incidents,
     total_sla_breaches |-> acc.total_sla_breaches,
     sla_breach_percentage |->
         Percentage(acc.total_sla_breaches, total_incidents, Len(acc.breaches))]

RECURSIVE SlaLoop(_, _, _, _)
SlaLoop(rows, n, strd, acc) ==
    IF n > Len(rows) THEN acc
    ELSE SlaLoop(rows, n + 1, strd, SlaRow(acc, rows[n], strd))

\* check_sla_breach as one call
CheckSlaBreach(rows, defs) ==
    SlaSummary(SlaLoop(rows, 1, NormalizeKeys(defs), SlaAcc(<<>>, <<>>, 0)), Len(rows))

-----------------------------------------------------------------------------
(* SLAPriorityAgent.__init__: the built-in table *)

DefaultSlaHoursTimes4(impact, urgency) ==
    IF impact \in {1, 2, 3} /\ urgency \in {1, 2, 3}
    THEN CASE <<impact, urgency>> = <<3, 3>> -> 16
           [] <<impact, urgency>> = <<3, 2>> -> 8
           [] <<impact, urgency>> = <<3, 1>> -> 4
           [] <<impact, urgency>> = <<2, 3>> -> 8
           [] <<impact, urgency>> = <<2, 2>> -> 4
           [] <<impact, urgency>> = <<2, 1>> -> 2
           [] <<impact, urgency>> = <<1, 3>> -> 4
           [] <<impact, urgency>> = <<1, 2>> -> 2
           [] <<impact, urgency>> = <<1, 1>> -> 1
    ELSE PyNone

\* default_sla in insertion order, values in quarter hours
DefaultSla ==
    [n \in 1..36 |->
        LET impact == (n - 1) \div 6
            urgency == (n - 1) % 6
        IN  [k |-> TupleKey(impact, urgency), v |-> DefaultSlaHoursTimes4(impact, urgency)]]

\* {k: timedelta(hours=v) for k, v in (sla_definitions or default_sla).items()
\*  if v is not None}; the argument is None or a table in quarter hours
SlaAgentInit(arg) ==
    LET src == IF arg = <<>> THEN DefaultSla ELSE arg
        kept == SelectSeq(src, LAMBDA e : e.v # PyNone)
    IN  [n \in 1..Len(kept) |-> [k |-> kept[n].k, v |-> (kept[n].v * TicksPerHour) \div 4]]

\* the table of SLAPriorityAgent()
DefaultSlaDefinitions == SlaAgentInit(<<>>)

\* SLAPriorityAgent.run: str_sla_definitions[str(k)] = v
AgentStrDefinitions(defs) ==
    [n \in 1..Len(defs) |-> [k |-> StrKey(PyStr(defs[n].k)), v |-> defs[n].v]]

-----------------------------------------------------------------------------
(* Inputs of the check_sla_breach runs *)

Row(id, p, i, u, h, o) ==
    [Incident_ID |-> id, Priority_enc |-> p, Impact_enc |-> i, Urgency_enc |-> u,
     Handle_Time_hrs |-> h, Open_Time__ |-> o]

\* a table given with "<impact>_<urgency>" keys: a 5 h entry, a zero-hour entry
CustomSlaDefinitions ==
    << [k |-> StrKey("3_1"), v |-> 1 * TicksPerHour],
       [k |-> StrKey("1_1"), v |-> 5 * TicksPerHour],
       [k |-> StrKey("2_2"), v |-> 0],
       [k |-> StrKey("3_3"), v |-> 4 * TicksPerHour] >>

SlaTables == {DefaultSlaDefinitions, AgentStrDefinitions(DefaultSlaDefinitions),
              CustomSlaDefinitions}

SlaPairs == {<<3, 1>>, <<1, 1>>, <<2, 2>>, <<3, 3>>, <<0, 0>>}

\* 0 h, 1 h, 1 h + 1 tick, 1.125 h, 1.5 h, 2 h, 3 h, 5 h + 1 tick, 5.375 h,
\* 6 h, 6 h + 1 tick, 6.125 h, missing
HandleTimes == {0, 64, 65, 72, 96, 128, 192, 321, 344, 384, 385, 392, NaN}

OpenTimes == {0, PyNone, NaT, Unparseable}

SlaProbeRows ==
    {Row(1, 2, pr[1], pr[2], h, o) : pr \in SlaPairs, h \in HandleTimes, o \in OpenTimes}

SlaFillerRows ==
    {Row(0, 1, 3, 1, 128, 8), Row(0, 3, 0, 0, 64, 0), Row(0, 2, 1, 1, 0, 15)}

\* the positions of the records about incident `id`
RecordsOf(records, id) == {k \in 1..Len(records) : records[k].Incident_ID = id}

RECURSIVE Snapshots(_, _, _)
\* the snapshots of n rows: a first row of `probe`, then rows of `fill`;
\* Incident_ID is the position of the row
Snapshots(probe, fill, n) ==
    IF n = 0 THEN {<<>>}
    ELSE IF n = 1 THEN {<<r>> : r \in probe}
    ELSE {Append(s, [r EXCEPT !.Incident_ID = n]) :
              s \in Snapshots(probe, fill, n - 1), r \in fill}

SlaSnapshots == UNION {Snapshots(SlaProbeRows, SlaFillerRows, n) : n \in 0..MaxRows}

-----------------------------------------------------------------------------
(* check_sla_breach as a run *)

NoAgent ==
    /\ outputs = EmptyDict
    /\ sla_output = EmptyDict
    /\ cat_output = EmptyDict
    /\ mappings = EmptyDict

Idle ==
    /\ weekly = <<>>
    /\ inconsistencies = <<>>
    /\ entry = "check_sla_breach"
    /\ NoAgent

InitSla ==
    /\ data \in SlaSnapshots
    /\ sla_definitions \in SlaTables
    /\ str_sla_definitions = EmptyDict
    /\ pc = "sla_start"
    /\ row_i = 0
    /\ breaches = <<>>
    /\ breached_details = <<>>
    /\ total_sla_breaches = 0
    /\ ret = NoError
    /\ Idle

\* lines 70-83
SlaNormalize ==
    /\ pc = "sla_start"
    /\ str_sla_definitions' = NormalizeKeys(sla_definitions)
    /\ pc' = "sla_loop"
    /\ UNCHANGED <<data, sla_definitions, row_i, breaches, breached_details,
                   total_sla_breaches, weekly, inconsistencies, agentVars, ret>>

\* lines 85-133, one iteration
SlaLoopRow ==
    /\ pc = "sla_loop"
    /\ row_i < Len(data)
    /\ LET acc == SlaRow(SlaAcc(breaches, breached_details, total_sla_breaches),
                         data[row_i + 1], str_sla_definitions)
       IN  /\ breaches' = acc.breaches
           /\ breached_details' = acc.breached_details
           /\ total_sla_breaches' = acc.total_sla_breaches
    /\ row_i' = row_i + 1
    /\ UNCHANGED <<data, sla_definitions, str_sla_definitions, pc, weekly,
                   inconsistencies, agentVars, ret>>

\* lines 135-143
SlaReturn ==
    /\ pc = "sla_loop"
    /\ row_i = Len(data)
    /\ ret' = SlaSummary(SlaAcc(breaches, breached_details, total_sla_breaches), Len(data))
    /\ pc' = "sla_done"
    /\ UNCHANGED <<data, sla_definitions, str_sla_definitions, row_i, breaches,
                   breached_details, total_sla_breaches, weekly, inconsistencies,
                   agentVars>>

NextSla == SlaNormalize \/ SlaLoopRow \/ SlaReturn

SpecSla == InitSla /\ [][NextSla]_vars

-----------------------------------------------------------------------------
(* compute_weekly_trend *)

\* .dt.to_period("W").dt.start_time: the Monday of the timestamp's week
WeekStart(day) == day - (day % 7)

\* pd.to_datetime(df[date_column]) raises when a value cannot be parsed
TrendParses(rows) == \A n \in 1..Len(rows) : rows[n].Open_Time__ # Unparseable

\* None and NaT become NaT, which groupby drops
HasWeek(row) == row.Open_Time__ >= 0

WeekKeys(rows) == {WeekStart(rows[n].Open_Time__) : n \in {m \in 1..Len(rows) : HasWeek(rows[m])}}

RECURSIVE SortAscending(_)
SortAscending(S) ==
    IF S = {} THEN <<>>
    ELSE LET lo == CHOOSE x \in S : \A y \in S : x <= y
         IN  <<lo>> \o SortAscending(S \ {lo})

\* df.groupby("week").size().reset_index(name="incident_count")
GroupByWeek(rows) ==
    LET keys == SortAscending(WeekKeys(rows))
    IN  [k \in 1..Len(keys) |->
            [week |-> keys[k],
             incident_count |-> Cardinality({n \in 1..Len(rows) :
                 HasWeek(rows[n]) /\ WeekStart(rows[n].Open_Time__) = keys[k]})]]

\* rolling(window=3, ...)
RollingWindow == 3

RECURSIVE SumCounts(_, _, _)
SumCounts(w, a, b) == IF a > b THEN 0 ELSE w[a].incident_count + SumCounts(w, a + 1, b)

\* the mean over the last `window` positions up to k, fewer at the start
MeanOver(w, k, window) ==
    LET first == IF k - window + 1 < 1 THEN 1 ELSE k - window + 1
    IN  Frac(SumCounts(w, first, k), k - first + 1)

RollingMeanShortWindow(w, k) == MeanOver(w, k, RollingWindow - 1)

\* .rolling(window=3, min_periods=1).mean() at position k
RollingMean(w, k) == MeanOver(w, k, RollingWindow)

\* incident_count > rolling_avg * 1.5
Spike(count, avg) == count * 2 * avg.den > 3 * avg.num

WithRollingAvg(w) ==
    [k \in 1..Len(w) |-> [week |-> w[k].week, incident_count |-> w[k].incident_count,
                          rolling_avg |-> RollingMean(w, k)]]

WithSpike(w) ==
    [k \in 1..Len(w) |-> [week |-> w[k].week, incident_count |-> w[k].incident_count,
                          rolling_avg |-> w[k].rolling_avg,
                          spike |-> Spike(w[k].incident_count, w[k].rolling_avg)]]

Ok(v) == [ok |-> TRUE, value |-> v]
Raised(e) == [ok |-> FALSE, error |-> e]

\* compute_weekly_trend as one call
ComputeWeeklyTrend(rows) ==
    IF TrendParses(rows) THEN Ok(WithSpike(WithRollingAvg(GroupByWeek(rows))))
    ELSE Raised("ValueError")

TrendDays == {0, 6, 7, 14, 21, NaT, Unparseable}

TrendSnapshots ==
    UNION {[1..n -> TrendDays] : n \in 0..MaxTrendRows}

ToolIdle ==
    /\ sla_definitions = <<>>
    /\ str_sla_definitions = EmptyDict
    /\ row_i = 0
    /\ breaches = <<>>
    /\ breached_details = <<>>
    /\ total_sla_breaches = 0
    /\ NoAgent
    /\ ret = NoError

InitTrend ==
    /\ \E days \in TrendSnapshots :
          data = [n \in 1..Len(days) |-> Row(n, 2, 2, 2, 64, days[n])]
    /\ pc = "trend_start"
    /\ entry = "compute_weekly_trend"
    /\ weekly = <<>>
    /\ inconsistencies = <<>>
    /\ ToolIdle

TrendUnchanged == UNCHANGED <<data, sla_definitions, str_sla_definitions, row_i, breaches,
                              breached_details, total_sla_breaches, inconsistencies, agentVars>>

\* lines 37-39
TrendGroup ==
    /\ pc = "trend_start"
    /\ IF TrendParses(data)
       THEN weekly' = GroupByWeek(data) /\ pc' = "trend_rolling" /\ ret' = ret
       ELSE weekly' = weekly /\ pc' = "trend_raised" /\ ret' = "ValueError"
    /\ TrendUnchanged

\* line 40
TrendRolling ==
    /\ pc = "trend_rolling"
    /\ weekly' = WithRollingAvg(weekly)
    /\ pc' = "trend_spike"
    /\ ret' = ret
    /\ TrendUnchanged

\* line 41
TrendSpike ==
    /\ pc = "trend_spike"
    /\ weekly' = WithSpike(weekly)
    /\ pc' = "trend_return"
    /\ ret' = ret
    /\ TrendUnchanged

\* line 42
TrendReturn ==
    /\ pc = "trend_return"
    /\ ret' = weekly
    /\ pc' = "trend_done"
    /\ weekly' = weekly
    /\ TrendUnchanged

NextTrend == TrendGroup \/ TrendRolling \/ TrendSpike \/ TrendReturn

SpecTrend == InitTrend /\ [][NextTrend]_vars

\* C5: the buckets are in chronological order, one per week; each bucket's
\* rolling_avg is the mean of its count and of the counts of up to two
\* preceding buckets, and spike == (count > 1.5 * rolling_avg), strictly;
\* a snapshot within a single week gives one bucket whose rolling_avg is its
\* count and which is no spike.
C5_RollingAvgAndSpike ==
    pc = "trend_done" =>
        /\ \A k \in 1..Len(ret) :
              LET lo == IF k > 2 THEN k - 2 ELSE 1
                  n == k - lo + 1
                  sum == SumCounts(ret, lo, k)
                  b == ret[k]
              IN  /\ k > 1 => ret[k - 1].week < b.week
                  /\ b.incident_count = Cardinality({m \in 1..Len(data) :
                        /\ data[m].Open_Time__ >= b.week
                        /\ data[m].Open_Time__ < b.week + 7})
                  /\ b.rolling_avg.num * n = sum * b.rolling_avg.den
                  /\ b.spike = (2 * n * b.incident_count > 3 * sum)
        /\ (/\ Len(data) > 0
            /\ \A m \in 1..Len(data) :
                  /\ data[m].Open_Time__ >= 0
                  /\ data[m].Open_Time__ \div 7 = data[1].Open_Time__ \div 7)
           => /\ Len(ret) = 1
              /\ ret[1].rolling_avg = Frac(ret[1].incident_count, 1)
              /\ ret[1].incident_count = Len(data)
              /\ ~ret[1].spike

\* a finished run with three buckets, the last a spike over a window of three
C5_Witness ==
    /\ pc = "trend_done"
    /\ Len(ret) = 3
    /\ ret[3].spike
    /\ ~ret[2].spike

\* a finished run whose incidents all fall in one week
C5_WitnessSingleWeek ==
    /\ pc = "trend_done"
    /\ Len(data) = 3
    /\ Len(ret) = 1

-----------------------------------------------------------------------------
(* detect_priority_inconsistencies *)

\* the levels of impact, urgency and priority: range(0, 6)
MaxLevel == 5
Levels == 0..MaxLevel

Null == [null |-> TRUE]

\* the debug line reads df.iloc[1] of every non-empty frame
DebugPrintRaises(rows) == Len(rows) = 1

\* lines 158-163
DetectedAt(row) ==
    IF row.Open_Time__ \in {PyNone, NaT} THEN Null
    ELSE IF row.Open_Time__ = Unparseable THEN Null
    ELSE Isoformat(row.Open_Time__)

FlaggedIgnoresUrgency(impact, urgency, priority) ==
    \/ (impact = 3 /\ priority # 1)
    \/ (impact = 1 /\ priority # 3)

\* line 164
Flagged(impact, urgency, priority) ==
    \/ (impact = 3 /\ urgency = 1 /\ priority # 1)
    \/ (impact = 1 /\ urgency = 3 /\ priority # 3)

\* lines 167-169
InconsistencySeverity(impact, urgency) ==
    IF impact = 3 /\ urgency = 3 THEN "High"
    ELSE IF (impact = 3 /\ urgency = 2) \/ (impact = 2 /\ urgency = 3) THEN "Medium"
    ELSE "Low"

\* the body of the row loop
InconsistencyRow(acc, row) ==
    LET impact == row.Impact_enc
        urgency == row.Urgency_enc
        priority == row.Priority_enc
    IN  IF Flagged(impact, urgency, priority)
        THEN Append(acc, [Incident_ID |-> row.Incident_ID,
                          Impact |-> impact,
                          Urgency |-> urgency,
                          Priority |-> priority,
                          Description |-> "Potential misalignment between Impact, Urgency, and Priority.",
                          Detected_At |-> DetectedAt(row),
                          Severity |-> InconsistencySeverity(impact, urgency)])
        ELSE acc

RECURSIVE InconsistencyLoop(_, _, _)
InconsistencyLoop(rows, n, acc) ==
    IF n > Len(rows) THEN acc
    ELSE InconsistencyLoop(rows, n + 1, InconsistencyRow(acc, rows[n]))

\* detect_priority_inconsistencies as one call
DetectPriorityInconsistencies(rows) ==
    IF DebugPrintRaises(rows) THEN Raised("IndexError")
    ELSE Ok(InconsistencyLoop(rows, 1, <<>>))

InconsistencyProbeRows ==
    {Row(1, p, i, u, 64, o) : p \in Levels, i \in Levels, u \in Levels, o \in OpenTimes}

InconsistencyFillerRows ==
    {Row(0, 2, 3, 1, 64, 8), Row(0, 3, 1, 3, 64, NaT), Row(0, 2, 2, 2, 64, 15)}

InconsistencySnapshots ==
    UNION {Snapshots(InconsistencyProbeRows, InconsistencyFillerRows, n) : n \in 0..MaxRows}

InitInconsistencies ==
    /\ data \in InconsistencySnapshots
    /\ pc = "incons_start"
    /\ entry = "detect_priority_inconsistencies"
    /\ weekly = <<>>
    /\ inconsistencies = <<>>
    /\ ToolIdle

InconsistenciesUnchanged ==
    UNCHANGED <<data, sla_definitions, str_sla_definitions, breaches, breached_details,
                total_sla_breaches, weekly, agentVars>>

\* lines 151-155
InconsistenciesDebugPrint ==
    /\ pc = "incons_start"
    /\ IF DebugPrintRaises(data)
       THEN pc' = "incons_raised" /\ ret' = "IndexError"
       ELSE pc' = "incons_loop" /\ ret' = ret
    /\ UNCHANGED <<row_i, inconsistencies>>
    /\ InconsistenciesUnchanged

\* lines 156-179, one iteration
InconsistenciesLoopRow ==
    /\ pc = "incons_loop"
    /\ row_i < Len(data)
    /\ inconsistencies' = InconsistencyRow(inconsistencies, data[row_i + 1])
    /\ row_i' = row_i + 1
    /\ UNCHANGED <<pc, ret>>
    /\ InconsistenciesUnchanged

\* line 180
InconsistenciesReturn ==
    /\ pc = "incons_loop"
    /\ row_i = Len(data)
    /\ ret' = inconsistencies
    /\ pc' = "incons_done"
    /\ UNCHANGED <<row_i, inconsistencies>>
    /\ InconsistenciesUnchanged

NextInconsistencies ==
    InconsistenciesDebugPrint \/ InconsistenciesLoopRow \/ InconsistenciesReturn

SpecInconsistencies == InitInconsistencies /\ [][NextInconsistencies]_vars

\* the records the finished call handed back (none when it raised)
EmittedInconsistencies == IF pc = "incons_done" THEN ret ELSE <<>>

\* C6: once detect_priority_inconsistencies has finished, an incident has an
\* inconsistency record if and only if (impact=3, urgency=1, priority#1) or
\* (impact=1, urgency=3, priority#3); an incident that matches is not dropped
\* when its open timestamp is missing: its record's Detected_At is null.
C6_FlaggedIffRule ==
    pc \in {"incons_done", "incons_raised"} =>
        \A n \in 1..Len(data) :
            LET row == data[n]
                recs == RecordsOf(EmittedInconsistencies, row.Incident_ID)
                rule == \/ (row.Impact_enc = 3 /\ row.Urgency_enc = 1 /\ row.Priority_enc # 1)
                        \/ (row.Impact_enc = 1 /\ row.Urgency_enc = 3 /\ row.Priority_enc # 3)
            IN  /\ rule <=> recs # {}
                /\ Cardinality(recs) <= 1
                /\ \A k \in recs :
                      row.Open_Time__ \in {PyNone, NaT, Unparseable}
                          => EmittedInconsistencies[k].Detected_At = Null

\* C13: every inconsistency record detect_priority_inconsistencies produces
\* has severity Low: its (impact, urgency) is (3,1) or (1,3), which is neither
\* the High pair (3,3) nor a Medium pair (3,2), (2,3) of the severity rule,
\* so these two branches are taken for no flagged incident.
C13_AlwaysLow ==
    /\ \A k \in 1..Len(inconsistencies) :
          /\ inconsistencies[k].Severity = "Low"
          /\ <<inconsistencies[k].Impact, inconsistencies[k].Urgency>> \in {<<3, 1>>, <<1, 3>>}
    /\ \A k \in 1..Len(EmittedInconsistencies) :
          EmittedInconsistencies[k].Severity = "Low"
    /\ \A n \in 1..Len(data) :
          Flagged(data[n].Impact_enc, data[n].Urgency_enc, data[n].Priority_enc)
              => InconsistencySeverity(data[n].Impact_enc, data[n].Urgency_enc)
                     \notin {"High", "Medium"}

\* a finished call that flagged impact=3, urgency=1, priority=2 as Low, and
\* an incident with impact=1, urgency=3 too
C13_Witness ==
    /\ pc = "incons_done"
    /\ \E k \in 1..Len(ret) :
          /\ ret[k].Impact = 3 /\ ret[k].Urgency = 1 /\ ret[k].Priority = 2
          /\ ret[k].Severity = "Low"
    /\ \E k \in 1..Len(ret) :
          /\ ret[k].Impact = 1 /\ ret[k].Urgency = 3
          /\ ret[k].Severity = "Low"

-----------------------------------------------------------------------------
(* Statements about check_sla_breach *)

\* the (impact, urgency) pair has an entry in the table as given: under its
\* tuple key or under its "<impact>_<urgency>" key
PairInTable(defs, i, u) ==
    \E n \in 1..Len(defs) :
        defs[n].k = TupleKey(i, u) \/ defs[n].k = StrKey(FormatKey(i, u))

\* the duration of the pair's (last) entry
TableDuration(defs, i, u) ==
    LET hits == {n \in 1..Len(defs) :
                    defs[n].k = TupleKey(i, u) \/ defs[n].k = StrKey(FormatKey(i, u))}
    IN  defs[CHOOSE n \in hits : \A m \in hits : m <= n].v

OpenTimeMissing(row) == row.Open_Time__ \in {PyNone, NaT, Unparseable}

HandleTimeMissing(row) == row.Handle_Time_hrs = NaN

\* exempt as the contract defines it
ContractExempt(row) ==
    \/ ~PairInTable(sla_definitions, row.Impact_enc, row.Urgency_enc)
    \/ HandleTimeMissing(row)
    \/ OpenTimeMissing(row)

\* C1: every incident is exempt, breached or not breached: exempt iff its pair
\* is absent from the table or its handle time or open timestamp is missing;
\* a non-exempt incident has exactly one indicator record, whose flag is
\* (handle_time > sla_duration), and a breach record exactly when the flag is
\* true; an exempt incident has no record in either list.
C1_Classification ==
    pc = "sla_done" =>
        \A n \in 1..Len(data) :
            LET row == data[n]
                ind == RecordsOf(ret.breaches, row.Incident_ID)
                det == RecordsOf(ret.breached_details, row.Incident_ID)
            IN  IF ContractExempt(row)
                THEN ind = {} /\ det = {}
                ELSE LET over == row.Handle_Time_hrs >
                                 TableDuration(sla_definitions, row.Impact_enc, row.Urgency_enc)
                     IN  /\ Cardinality(ind) = 1
                         /\ \A k \in ind : ret.breaches[k].breach = over
                         /\ Cardinality(det) = (IF over THEN 1 ELSE 0)

\* the tier of a ratio by the ordered table of the contract
TierOf(r) ==
    CASE r.num * 10 > 20 * r.den -> "Critical"
      [] r.num * 10 > 15 * r.den /\ r.num * 10 <= 20 * r.den -> "High"
      [] r.num * 10 > 12 * r.den /\ r.num * 10 <= 15 * r.den -> "Medium"
      [] r.num * 10 <= 12 * r.den -> "Low"

\* C3 as stated: the tier of every breach record is the table's tier of the
\* ratio handle_time / sla_duration, and also of the Breach_Ratio recorded
\* in the same record.
C3_TierMatchesRecordedRatio ==
    \A k \in 1..Len(breached_details) :
        LET d == breached_details[k]
        IN  /\ d.Severity = TierOf([num |-> d.Handle_Time_hrs, den |-> d.SLA_Duration_hrs])
            /\ d.Severity = TierOf(d.Breach_Ratio)

\* C3 amended: the tier of every breach record is the table's tier of the
\* unrounded ratio handle_time / sla_duration of that record (1.5 gives
\* Medium, 2.0 gives High); the recorded Breach_Ratio is that ratio rounded
\* to two decimals, within 0.005 of it.
C3_TierMatchesExactRatio ==
    \A k \in 1..Len(breached_details) :
        LET d == breached_details[k]
            h == d.Handle_Time_hrs
            s == d.SLA_Duration_hrs
            q == d.Breach_Ratio
        IN  /\ d.Severity = TierOf([num |-> h, den |-> s])
            /\ (2 * h = 3 * s => d.Severity = "Medium")
            /\ (h = 2 * s => d.Severity = "High")
            /\ 200 * (q.num * s - h * q.den) <= q.den * s
            /\ 200 * (h * q.den - q.num * s) <= q.den * s

\* a run with a breach at ratio exactly 1.5 and one at ratio exactly 2.0
C3_Witness ==
    /\ pc = "sla_done"
    /\ \E k \in 1..Len(breached_details) :
          /\ 2 * breached_details[k].Handle_Time_hrs = 3 * breached_details[k].SLA_Duration_hrs
          /\ breached_details[k].Severity = "Medium"
    /\ \E k \in 1..Len(breached_details) :
          /\ breached_details[k].Handle_Time_hrs = 2 * breached_details[k].SLA_Duration_hrs
          /\ breached_details[k].Severity = "High"

\* C4: the summary counts every incident passed in (exempt ones included),
\* never more breaches than incidents; an exempt incident (its pair absent
\* from the table, or its handle time or open time missing) never adds to
\* the breach total, which counts the non-exempt incidents in breach; the
\* percentage is breaches / incidents * 100, and 0 for an empty snapshot.
C4_Summary ==
    pc = "sla_done" =>
        LET total == ret.total_incidents_analyzed
            nb == ret.total_sla_breaches
            pct == ret.sla_breach_percentage
        IN  /\ total = Len(data)
            /\ nb <= total
            /\ \A n \in 1..Len(data) :
                  ContractExempt(data[n])
                      => /\ RecordsOf(ret.breached_details, data[n].Incident_ID) = {}
                         /\ \A k \in RecordsOf(ret.breaches, data[n].Incident_ID) :
                                ~ret.breaches[k].breach
            /\ nb = Cardinality({n \in 1..Len(data) :
                        /\ ~ContractExempt(data[n])
                        /\ \E k \in RecordsOf(ret.breaches, data[n].Incident_ID) :
                               ret.breaches[k].breach})
            /\ pct.num * total = nb * 100 * pct.den
            /\ (total = 0 => pct.num = 0)

\* C10: a zero-hour entry is not an absent entry: an incident whose pair maps
\* to a zero duration, with its open time present and handle time > 0, is
\* evaluated, counted as a breach with an infinite ratio and severity Critical.
C10_ZeroDurationEvaluated ==
    pc = "sla_done" =>
        \A n \in 1..Len(data) :
            LET row == data[n]
            IN  (/\ PairInTable(sla_definitions, row.Impact_enc, row.Urgency_enc)
                 /\ TableDuration(sla_definitions, row.Impact_enc, row.Urgency_enc) = 0
                 /\ ~OpenTimeMissing(row)
                 /\ row.Handle_Time_hrs > 0)
                => /\ \E k \in RecordsOf(ret.breaches, row.Incident_ID) :
                          ret.breaches[k].breach
                   /\ \E k \in RecordsOf(ret.breached_details, row.Incident_ID) :
                          /\ ret.breached_details[k].Severity = "Critical"
                          /\ ret.breached_details[k].Breach_Ratio = Inf

\* C11 as stated: the Breach_Ratio field of every breach record is strictly
\* greater than 1.0.
C11_RecordedRatioAboveOne ==
    \A k \in 1..Len(breached_details) :
        FracGt(breached_details[k].Breach_Ratio, 1, 1)

\* C11 amended: for every breach record against a positive duration, the
\* unrounded ratio handle_time / sla_duration is strictly greater than 1.0;
\* the recorded Breach_Ratio is that ratio rounded to two decimals, which is
\* at least 1.0 and equals 1.0 when the ratio is below 1.005.
C11_ExactRatioAboveOne ==
    \A k \in 1..Len(breached_details) :
        LET d == breached_details[k]
            h == d.Handle_Time_hrs
            s == d.SLA_Duration_hrs
            q == d.Breach_Ratio
        IN  s > 0 =>
               /\ h > s
               /\ FracGt(BreachRatio(h, s), 1, 1)
               /\ q = Round2(Frac(h, s))
               /\ q.num >= q.den
               /\ (200 * h < 201 * s => q = Frac(1, 1))

\* a run with a breach whose recorded ratio is 1.0
C11_Witness ==
    /\ pc = "sla_done"
    /\ \E k \in 1..Len(breached_details) :
          /\ breached_details[k].Handle_Time_hrs > breached_details[k].SLA_Duration_hrs
          /\ breached_details[k].SLA_Duration_hrs > 0
          /\ breached_details[k].Breach_Ratio = Frac(1, 1)

-----------------------------------------------------------------------------
(* SLAPriorityAgent.run: the aggregation of the tools' outputs *)

\* pd.to_datetime of a Breach_Time / Detected_At value: None and "NaT" give NaT
ParseIso(x) == IF x = Null THEN NaT ELSE x.iso

\* the index of the first largest count (a stable descending sort)
FirstMax(recs, field) ==
    CHOOSE k \in 1..Len(recs) :
        /\ \A j \in 1..Len(recs) : recs[j][field] <= recs[k][field]
        /\ \A j \in 1..(k - 1) : recs[j][field] < recs[k][field]

RemoveAt(seq, k) == SubSeq(seq, 1, k - 1) \o SubSeq(seq, k + 1, Len(seq))

RECURSIVE SortDescending(_, _)
\* sort_values(field, ascending=False), ties in their incoming order
SortDescending(recs, field) ==
    IF recs = <<>> THEN <<>>
    ELSE LET k == FirstMax(recs, field)
         IN  <<recs[k]>> \o SortDescending(RemoveAt(recs, k), field)

HeadAll(seq) == seq

\* .head(3)
Head3(seq) == IF Len(seq) > 3 THEN SubSeq(seq, 1, 3) ELSE seq

\* groupby(["Priority_enc", "Impact_enc"]).size().reset_index(name="breach_count")
\*   .sort_values("breach_count", ascending=False)
BreachByCombo(details) ==
    LET code(d) == d.Priority_enc * (MaxLevel + 1) + d.Impact_enc
        keys == SortAscending({code(details[n]) : n \in 1..Len(details)})
        grouped == [k \in 1..Len(keys) |->
                      [Priority_enc |-> keys[k] \div (MaxLevel + 1),
                       Impact_enc |-> keys[k] % (MaxLevel + 1),
                       breach_count |-> Cardinality({n \in 1..Len(details) :
                                            code(details[n]) = keys[k]})]]
    IN  SortDescending(grouped, "breach_count")

\* the weeks of a sequence of days, NaT dropped, with the size of each
WeekSizes(days) ==
    LET valid == {n \in 1..Len(days) : days[n] >= 0}
        keys == SortAscending({WeekStart(days[n]) : n \in valid})
    IN  [k \in 1..Len(keys) |->
            [wk |-> keys[k],
             size |-> Cardinality({n \in valid : WeekStart(days[n]) = keys[k]})]]

\* lines 131-135
WeeklyBreaches(details) ==
    LET w == WeekSizes([n \in 1..Len(details) |-> ParseIso(details[n].Breach_Time)])
    IN  [k \in 1..Len(w) |-> [breach_week |-> w[k].wk, breach_count |-> w[k].size]]

\* lines 165-169
WeeklyInconsistencies(incs) ==
    LET w == WeekSizes([n \in 1..Len(incs) |-> ParseIso(incs[n].Detected_At)])
    IN  [k \in 1..Len(w) |-> [detected_week |-> w[k].wk, inconsistency_count |-> w[k].size]]

\* ["Severity"].value_counts().reset_index(): tiers by descending count, ties
\* in their order of first appearance
SeverityCounts(recs) ==
    LET firsts == {n \in 1..Len(recs) :
                      \A m \in 1..(n - 1) : recs[m].Severity # recs[n].Severity}
        order == SortAscending(firsts)
        counted == [k \in 1..Len(order) |->
                      [severity |-> recs[order[k]].Severity,
                       count |-> Cardinality({n \in 1..Len(recs) :
                                     recs[n].Severity = recs[order[k]].Severity})]]
    IN  SortDescending(counted, "count")

\* what the prompt hands to the language model, which writes the summary
PromptInput(sla_breach_data, incs, top_breaching) ==
    [sla_breach_percentage |-> sla_breach_data.sla_breach_percentage,
     total_breaches |-> sla_breach_data.total_sla_breaches,
     total_incidents |-> sla_breach_data.total_incidents_analyzed,
     inconsistencies_found |-> Len(incs),
     top_breaching_combinations |-> top_breaching]

SlaAgentKey == "SLAPriorityAgent"

\* lines 109-198: the report of SLAPriorityAgent.run from the map's outputs
SlaReport(sla_breach_data, incs) ==
    LET details == sla_breach_data.breached_details
        breach_by_combo == IF details # <<>> THEN BreachByCombo(details) ELSE <<>>
        top_breaching == Head3(breach_by_combo)
        report ==
            [summary |-> [summary_of |-> PromptInput(sla_breach_data, incs, top_breaching)],
             sla_breach |-> sla_breach_data,
             inconsistencies |-> incs,
             breach_distribution |-> breach_by_combo,
             time_series |->
                 [breaches |-> IF details # <<>> THEN WeeklyBreaches(details) ELSE <<>>,
                  inconsistencies |-> IF incs # <<>> THEN WeeklyInconsistencies(incs) ELSE <<>>],
             severity_distribution |->
                 [breaches |-> IF details # <<>> THEN SeverityCounts(details) ELSE <<>>,
                  inconsistencies |-> IF incs # <<>> THEN SeverityCounts(incs) ELSE <<>>]]
    IN  [k \in {SlaAgentKey} |-> report]

-----------------------------------------------------------------------------
(* decode_categories and get_top_n *)

\* a key of the mappings file that int() parses, and one it does not
IntKey(n) == [int |-> n]
TextKey(t) == [text |-> t]
IsIntKey(k) == "int" \in DOMAIN k

\* the file of mapping_path is not there
MissingFile == [missing |-> TRUE]

\* mappings.get(name, {})
MappingOf(m, name) == IF name \in DOMAIN m THEN m[name] ELSE <<>>

\* {int(k): str(v) for k, v in ...} raises on a key that is no integer
IntKeysOnly(entries) == \A n \in 1..Len(entries) : IsIntKey(entries[n].k)

\* .map(mapping).fillna("Unknown"): the label of the code's (last) entry
Label(entries, code) ==
    LET hits == {n \in 1..Len(entries) : entries[n].k = IntKey(code)}
    IN  IF hits = {} THEN "Unknown"
        ELSE entries[CHOOSE n \in hits : \A m \in hits : m <= n].v

\* a row of the decoded frame
DecodedRow(row, cat, subcat) ==
    [Incident_ID |-> row.Incident_ID, Priority_enc |-> row.Priority_enc,
     Impact_enc |-> row.Impact_enc, Urgency_enc |-> row.Urgency_enc,
     Handle_Time_hrs |-> row.Handle_Time_hrs, Open_Time__ |-> row.Open_Time__,
     CI_Cat_enc |-> row.CI_Cat_enc, CI_Subcat_enc |-> row.CI_Subcat_enc,
     CI_Cat |-> Label(cat, row.CI_Cat_enc),
     CI_Subcat |-> Label(subcat, row.CI_Subcat_enc)]

\* decode_categories as one call
DecodeCategories(rows, m) ==
    LET cat == MappingOf(m, "CI_Cat")
        subcat == MappingOf(m, "CI_Subcat")
    IN  IF ~IntKeysOnly(cat) \/ ~IntKeysOnly(subcat) THEN Raised("ValueError")
        ELSE Ok([n \in 1..Len(rows) |-> DecodedRow(rows[n], cat, subcat)])

\* .value_counts(): the values by descending count, ties in their order of
\* first appearance
ValueCounts(values) ==
    LET firsts == {n \in 1..Len(values) : \A m \in 1..(n - 1) : values[m] # values[n]}
        order == SortAscending(firsts)
        counted == [k \in 1..Len(order) |->
                      [value |-> values[order[k]],
                       count |-> Cardinality({n \in 1..Len(values) :
                                     values[n] = values[order[k]]})]]
    IN  SortDescending(counted, "count")

\* .head(n)
HeadN(seq, n) == IF Len(seq) > n THEN SubSeq(seq, 1, n) ELSE seq

\* get_top_n as one call: the dict, in its order
GetTopN(rows, column, n) ==
    Ok(HeadN(ValueCounts([k \in 1..Len(rows) |-> rows[k][column]]), n))

\* the n of the two get_top_n steps
TopN == 5

-----------------------------------------------------------------------------
(* SLAPriorityAgent.normalize_scales *)

\* the top of the scale: a column with a larger level is re-binned
ScaleTop == 3

\* the number of quantile bins of pd.qcut(df[col], 3, labels=[1, 2, 3])
QBins == 3

ColumnOf(rows, col) == [n \in 1..Len(rows) |-> rows[n][col]]

\* df[col].max()
MaxOf(values) ==
    CHOOSE v \in {values[n] : n \in 1..Len(values)} :
        \A n \in 1..Len(values) : values[n] <= v

\* the k-th smallest of the values
SortedAt(values, k) ==
    CHOOSE v \in {values[n] : n \in 1..Len(values)} :
        /\ Cardinality({n \in 1..Len(values) : values[n] < v}) < k
        /\ k <= Cardinality({n \in 1..Len(values) : values[n] <= v})

\* QBins times the quantile j / QBins of the values, interpolated linearly
\* between the two values around position j * (n - 1) / QBins
EdgeTimes(values, j) ==
    LET pos == j * (Len(values) - 1)
        lo == pos \div QBins
        r == pos % QBins
    IN  IF r = 0 THEN QBins * SortedAt(values, lo + 1)
        ELSE QBins * SortedAt(values, lo + 1)
                 + r * (SortedAt(values, lo + 2) - SortedAt(values, lo + 1))

\* "Bin edges must be unique"
QCutRaises(values) ==
    \E j \in 0..(QBins - 1) : EdgeTimes(values, j) = EdgeTimes(values, j + 1)

\* the label of x: the bin (edge j-1, edge j] that holds it, the lowest edge
\* included in the first bin
QCutLabel(values, x) ==
    IF QBins * x = EdgeTimes(values, 0) THEN 1
    ELSE CHOOSE j \in 1..QBins :
             /\ EdgeTimes(values, j - 1) < QBins * x
             /\ QBins * x <= EdgeTimes(values, j)

\* lines 72-73 for one column: the rows after it, or that qcut raised
NormalizeColumn(rows, col) ==
    LET values == ColumnOf(rows, col)
    IN  IF rows = <<>> \/ MaxOf(values) <= ScaleTop
        THEN [rows |-> rows, raised |-> FALSE]
        ELSE IF QCutRaises(values)
        THEN [rows |-> rows, raised |-> TRUE]
        ELSE [rows |-> [n \in 1..Len(rows) |->
                           [rows[n] EXCEPT ![col] = QCutLabel(values, values[n])]],
              raised |-> FALSE]

\* normalize_scales as one call
NormalizeScales(rows) ==
    LET first == NormalizeColumn(rows, "Priority_enc")
    IN  IF first.raised THEN first ELSE NormalizeColumn(first.rows, "Impact_enc")

-----------------------------------------------------------------------------
(* CategorizationAgent.run *)

\* explain_spike_weeks
ExplainSpikeWeeks(spike_weeks) ==
    IF spike_weeks = <<>>
    THEN [text |-> "No spikes were detected in incident volume."]
    ELSE [text |-> "Spikes were detected during the following weeks", weeks |-> spike_weeks]

CatAgentKeyClash == "SLAPriorityAgent"

CatAgentKey == "CategorizationAgent"

\* lines 66-77: the report of CategorizationAgent.run from the map's outputs
CatReport(top_categories, top_subcategories, weekly_trend) ==
    LET spikes == SelectSeq(weekly_trend, LAMBDA e : e.spike)
        spike_weeks == [k \in 1..Len(spikes) |-> spikes[k].week]
        report == [top_categories |-> top_categories,
                   top_subcategories |-> top_subcategories,
                   weekly_trend |-> weekly_trend,
                   spike_explanation |-> ExplainSpikeWeeks(spike_weeks)]
    IN  [k \in {CatAgentKey} |-> report]

-----------------------------------------------------------------------------
(* run_all_agents *)

\* dict.update
DictUpdate(a, b) ==
    [k \in (DOMAIN a) \cup (DOMAIN b) |-> IF k \in DOMAIN b THEN b[k] ELSE a[k]]

\* out.get("dashboard_output", out)
DashboardOf(out) == IF "dashboard_output" \in DOMAIN out THEN out["dashboard_output"] ELSE out

\* lines 76-78
MergeDashboard(sla_out, cat_out) ==
    DictUpdate(DictUpdate(EmptyDict, DashboardOf(sla_out)), DashboardOf(cat_out))

Pending == [pending |-> TRUE]
IsPending(t) == "pending" \in DOMAIN t
IsOk(t) == "value" \in DOMAIN t
IsRaised(t) == "error" \in DOMAIN t

\* a constructor argument with "<impact>_<urgency>" keys, in quarter hours
CustomSlaArgument ==
    << [k |-> StrKey("3_1"), v |-> 4],
       [k |-> StrKey("1_1"), v |-> 1],
       [k |-> StrKey("2_2"), v |-> 4],
       [k |-> StrKey("0_0"), v |-> PyNone] >>

ConstructorArguments(e) ==
    IF e = "run_all_agents" THEN {<<>>} ELSE {<<>>, CustomSlaArgument}

\* the files mapping_path may name: none, one with integer keys, one with
\* a key that is no integer (and no "CI_Subcat")
CategoryMappings ==
    [CI_Cat |-> << [k |-> IntKey(1), v |-> "application"],
                   [k |-> IntKey(2), v |-> "hardware"] >>,
     CI_Subcat |-> << [k |-> IntKey(1), v |-> "Server Based Application"] >>]

BadKeyMappings ==
    [CI_Cat |-> << [k |-> TextKey("application"), v |-> "application"] >>]

MappingFiles == {MissingFile, CategoryMappings, BadKeyMappings}

\* a row with its category and subcategory codes
CatRow(id, p, i, u, h, o, c, sc) ==
    [Incident_ID |-> id, Priority_enc |-> p, Impact_enc |-> i, Urgency_enc |-> u,
     Handle_Time_hrs |-> h, Open_Time__ |-> o, CI_Cat_enc |-> c, CI_Subcat_enc |-> sc]

AgentRows(id) ==
    {CatRow(id, 2, 3, 1, 192, 0, 1, 1),
     CatRow(id, 1, 1, 1, 8, 7, 2, 1),
     CatRow(id, 2, 2, 2, 96, 8, 1, 2),
     CatRow(id, 0, 0, 0, 64, 15, 3, 1),
     CatRow(id, 3, 1, 3, 64, NaT, 2, 2),
     CatRow(id, 1, 1, 3, NaN, Unparseable, 1, 1),
     CatRow(id, 5, 4, 2, 64, 21, 2, 1),
     CatRow(id, 4, 4, 0, 32, 14, 3, 2)}

RECURSIVE AgentSnapshotsOf(_)
AgentSnapshotsOf(n) ==
    IF n = 0 THEN {<<>>}
    ELSE {Append(s, r) : s \in AgentSnapshotsOf(n - 1), r \in AgentRows(n)}

AgentSnapshots == UNION {AgentSnapshotsOf(n) : n \in 0..MaxAgentRows}

Init ==
    /\ data \in AgentSnapshots
    /\ entry \in {"run_all_agents", "SLAPriorityAgent.run",
                  "SLAPriorityAgent.normalize_scales"}
    /\ sla_definitions = <<>>
    /\ str_sla_definitions = EmptyDict
    /\ pc = "sla_init"
    /\ row_i = 0
    /\ breaches = <<>>
    /\ breached_details = <<>>
    /\ total_sla_breaches = 0
    /\ weekly = <<>>
    /\ inconsistencies = <<>>
    /\ NoAgent
    /\ ret = NoError

\* what no step of an agent writes
ToolsUnchanged == UNCHANGED <<row_i, breaches, breached_details,
                              total_sla_breaches, weekly, inconsistencies>>

AgentUnchanged == ToolsUnchanged /\ UNCHANGED <<data, entry, mappings>>

\* SLAPriorityAgent.__init__, lines 31-59
SlaAgentConstruct ==
    /\ pc = "sla_init"
    /\ \E arg \in ConstructorArguments(entry) : sla_definitions' = SlaAgentInit(arg)
    /\ pc' = IF entry = "SLAPriorityAgent.normalize_scales" THEN "sla_normalize" ELSE "sla_run"
    /\ UNCHANGED <<str_sla_definitions, outputs, sla_output, cat_output, ret>>
    /\ AgentUnchanged

\* SLAPriorityAgent.normalize_scales, lines 70-74: Priority_enc, then
\* Impact_enc, is re-binned in the caller's frame; an error in the second
\* column leaves the first one re-binned
NormalizeScalesCall ==
    /\ pc = "sla_normalize"
    /\ LET r == NormalizeScales(data)
       IN  /\ data' = r.rows
           /\ IF r.raised
              THEN pc' = "raised" /\ ret' = "ValueError"
              ELSE pc' = "done" /\ ret' = r.rows
    /\ UNCHANGED <<entry, mappings, sla_definitions, str_sla_definitions, outputs,
                   sla_output, cat_output>>
    /\ ToolsUnchanged

\* SLAPriorityAgent.run, lines 78-106: the keys are stringified, the map starts
SlaAgentStart ==
    /\ pc = "sla_run"
    /\ str_sla_definitions' = AgentStrDefinitions(sla_definitions)
    /\ outputs' = [k \in {"sla_breach", "inconsistencies"} |-> Pending]
    /\ pc' = "sla_map"
    /\ UNCHANGED <<sla_definitions, sla_output, cat_output, ret>>
    /\ AgentUnchanged

\* the step "sla_breach" of the map
TaskSlaBreach ==
    /\ pc = "sla_map"
    /\ IsPending(outputs["sla_breach"])
    /\ outputs' = [outputs EXCEPT !["sla_breach"] =
                       Ok(CheckSlaBreach(data, str_sla_definitions))]
    /\ UNCHANGED <<sla_definitions, str_sla_definitions, pc, sla_output, cat_output, ret>>
    /\ AgentUnchanged

\* the step "inconsistencies" of the map
TaskInconsistencies ==
    /\ pc = "sla_map"
    /\ IsPending(outputs["inconsistencies"])
    /\ outputs' = [outputs EXCEPT !["inconsistencies"] =
                       DetectPriorityInconsistencies(data)]
    /\ UNCHANGED <<sla_definitions, str_sla_definitions, pc, sla_output, cat_output, ret>>
    /\ AgentUnchanged

\* the map returns once every step has ended, or raises a step's error;
\* SLAPriorityAgent.run then aggregates and returns (lines 106-198)
SlaAgentJoin ==
    /\ pc = "sla_map"
    /\ \A k \in DOMAIN outputs : ~IsPending(outputs[k])
    /\ IF \E k \in DOMAIN outputs : IsRaised(outputs[k])
       THEN /\ pc' = "raised"
            /\ ret' = IF IsRaised(outputs["sla_breach"])
                      THEN outputs["sla_breach"].error
                      ELSE outputs["inconsistencies"].error
            /\ sla_output' = sla_output
       ELSE LET out == SlaReport(outputs["sla_breach"].value,
                                 outputs["inconsistencies"].value)
            IN  /\ sla_output' = out
                /\ IF entry = "run_all_agents"
                   THEN pc' = "cat_run" /\ ret' = ret
                   ELSE pc' = "done" /\ ret' = out
    /\ UNCHANGED <<sla_definitions, str_sla_definitions, outputs, cat_output>>
    /\ AgentUnchanged

\* the steps of CategorizationAgent.run's map, in the order of its keys
CatSteps == <<"decoded", "weekly", "top_categories", "top_subcategories">>

\* CategorizationAgent.run, lines 42-63: the mappings file is read, the map starts
CatAgentStart ==
    /\ pc = "cat_run"
    /\ \E m \in MappingFiles :
          /\ mappings' = m
          /\ IF m = MissingFile
             THEN pc' = "raised" /\ ret' = "FileNotFoundError" /\ outputs' = outputs
             ELSE /\ pc' = "cat_map"
                  /\ ret' = ret
                  /\ outputs' = [k \in {CatSteps[n] : n \in 1..Len(CatSteps)} |-> Pending]
    /\ UNCHANGED <<data, entry, sla_definitions, str_sla_definitions, sla_output, cat_output>>
    /\ ToolsUnchanged

\* the step "decoded" of the map
TaskDecoded ==
    /\ pc = "cat_map"
    /\ IsPending(outputs["decoded"])
    /\ outputs' = [outputs EXCEPT !["decoded"] = DecodeCategories(data, mappings)]
    /\ UNCHANGED <<sla_definitions, str_sla_definitions, pc, sla_output, cat_output, ret>>
    /\ AgentUnchanged

\* the step "weekly" of the map
TaskWeekly ==
    /\ pc = "cat_map"
    /\ IsPending(outputs["weekly"])
    /\ outputs' = [outputs EXCEPT !["weekly"] = ComputeWeeklyTrend(data)]
    /\ UNCHANGED <<sla_definitions, str_sla_definitions, pc, sla_output, cat_output, ret>>
    /\ AgentUnchanged

\* the step "top_categories" of the map
TaskTopCategories ==
    /\ pc = "cat_map"
    /\ IsPending(outputs["top_categories"])
    /\ outputs' = [outputs EXCEPT !["top_categories"] = GetTopN(data, "CI_Cat_enc", TopN)]
    /\ UNCHANGED <<sla_definitions, str_sla_definitions, pc, sla_output, cat_output, ret>>
    /\ AgentUnchanged

\* the step "top_subcategories" of the map
TaskTopSubcategories ==
    /\ pc = "cat_map"
    /\ IsPending(outputs["top_subcategories"])
    /\ outputs' = [outputs EXCEPT !["top_subcategories"] =
                       GetTopN(data, "CI_Subcat_enc", TopN)]
    /\ UNCHANGED <<sla_definitions, str_sla_definitions, pc, sla_output, cat_output, ret>>
    /\ AgentUnchanged

\* the error the map raises: that of the first step, in the order of the
\* keys, that raised
FirstError(outs, steps) ==
    outs[steps[CHOOSE n \in 1..Len(steps) :
                  /\ IsRaised(outs[steps[n]])
                  /\ \A m \in 1..(n - 1) : ~IsRaised(outs[steps[m]])]].error

\* the map returns or raises; CategorizationAgent.run returns (lines 63-77)
CatAgentJoin ==
    /\ pc = "cat_map"
    /\ \A k \in DOMAIN outputs : ~IsPending(outputs[k])
    /\ IF \E k \in DOMAIN outputs : IsRaised(outputs[k])
       THEN /\ pc' = "raised"
            /\ ret' = FirstError(outputs, CatSteps)
            /\ cat_output' = cat_output
       ELSE /\ pc' = "merge"
            /\ ret' = ret
            /\ cat_output' = CatReport(outputs["top_categories"].value,
                                       outputs["top_subcategories"].value,
                                       outputs["weekly"].value)
    /\ UNCHANGED <<sla_definitions, str_sla_definitions, outputs, sla_output>>
    /\ AgentUnchanged

\* run_all_agents, lines 75-86
Merge ==
    /\ pc = "merge"
    /\ ret' = [features |-> data, dashboard_output |-> MergeDashboard(sla_output, cat_output)]
    /\ pc' = "done"
    /\ UNCHANGED <<sla_definitions, str_sla_definitions, outputs, sla_output, cat_output>>
    /\ AgentUnchanged

Next ==
    \/ SlaAgentConstruct
    \/ NormalizeScalesCall
    \/ SlaAgentStart
    \/ TaskSlaBreach
    \/ TaskInconsistencies
    \/ SlaAgentJoin
    \/ CatAgentStart
    \/ TaskDecoded
    \/ TaskWeekly
    \/ TaskTopCategories
    \/ TaskTopSubcategories
    \/ CatAgentJoin
    \/ Merge

Spec == Init /\ [][Next]_vars

-----------------------------------------------------------------------------
(* Statements about the agents and run_all_agents *)

\* C2: with the built-in table, the keys SLAPriorityAgent.run hands over are
\* found by check_sla_breach's lookup: every incident with impact and urgency
\* in {1,2,3} and handle time and open time present is evaluated against the
\* default duration of its pair; impact=3, urgency=1, handle time 3.0 h is a
\* breach against 1 h with severity Critical.
C2_DefaultTableEvaluated ==
    (/\ pc = "sla_map"
     /\ sla_definitions = DefaultSlaDefinitions
     /\ IsOk(outputs["sla_breach"]))
    => LET r == outputs["sla_breach"].value
       IN  \A n \in 1..Len(data) :
              LET row == data[n]
                  i == row.Impact_enc
                  u == row.Urgency_enc
                  h == row.Handle_Time_hrs
              IN  (/\ i \in {1, 2, 3}
                   /\ u \in {1, 2, 3}
                   /\ h # NaN
                   /\ row.Open_Time__ >= 0)
                  => /\ \E k \in RecordsOf(r.breaches, row.Incident_ID) :
                            r.breaches[k].breach = (h > TableDuration(sla_definitions, i, u))
                     /\ (i = 3 /\ u = 1 /\ h = 3 * TicksPerHour)
                            => \E k \in RecordsOf(r.breached_details, row.Incident_ID) :
                                  /\ r.breached_details[k].SLA_Duration_hrs = TicksPerHour
                                  /\ r.breached_details[k].Severity = "Critical"

RunEnded == pc \in {"done", "raised"}

\* C7: when a component has raised, the run still ends with a report (the
\* other components' results, an empty section for the failed one) instead
\* of ending with the error.
C7_FailureIsolated ==
    (RunEnded /\ \E k \in DOMAIN outputs : IsRaised(outputs[k]))
    => /\ pc = "done"
       /\ \/ (entry = "run_all_agents" /\ "dashboard_output" \in DOMAIN ret)
          \/ (entry = "SLAPriorityAgent.run" /\ SlaAgentKey \in DOMAIN ret)

\* C8: whatever the order in which the steps of a map run, each key of the
\* map holds only the result of its own step over the snapshot; the two
\* agents' outputs have no key in common, so merging them in either order
\* gives the same dashboard_output, which is a function of the snapshot.
C8_OrderIndependent ==
    /\ pc = "sla_map" =>
          /\ outputs["sla_breach"] \in
                {Pending, Ok(CheckSlaBreach(data, str_sla_definitions))}
          /\ outputs["inconsistencies"] \in
                {Pending, DetectPriorityInconsistencies(data)}
    /\ pc = "cat_map" =>
          /\ outputs["decoded"] \in {Pending, DecodeCategories(data, mappings)}
          /\ outputs["weekly"] \in {Pending, ComputeWeeklyTrend(data)}
          /\ outputs["top_categories"] \in {Pending, GetTopN(data, "CI_Cat_enc", TopN)}
          /\ outputs["top_subcategories"] \in
                {Pending, GetTopN(data, "CI_Subcat_enc", TopN)}
    /\ pc \in {"merge", "done"} /\ entry = "run_all_agents" =>
          /\ (DOMAIN sla_output) \cap (DOMAIN cat_output) = {}
          /\ MergeDashboard(sla_output, cat_output) = MergeDashboard(cat_output, sla_output)
    /\ pc = "done" /\ entry = "run_all_agents" =>
          /\ DOMAIN ret.dashboard_output = {"SLAPriorityAgent", "CategorizationAgent"}
          /\ ret.dashboard_output["SLAPriorityAgent"] =
                SlaReport(CheckSlaBreach(data, str_sla_definitions),
                          DetectPriorityInconsistencies(data).value)["SLAPriorityAgent"]
          /\ ret.dashboard_output["CategorizationAgent"] =
                CatReport(GetTopN(data, "CI_Cat_enc", TopN).value,
                          GetTopN(data, "CI_Subcat_enc", TopN).value,
                          ComputeWeeklyTrend(data).value)["CategorizationAgent"]

\* the consistency step has ended before the SLA step has run
C8_Witness ==
    /\ pc = "sla_map"
    /\ Len(data) = 2
    /\ IsPending(outputs["sla_breach"])
    /\ IsOk(outputs["inconsistencies"])
    /\ outputs["inconsistencies"].value # <<>>

\* a merged report of a run over two incidents
C8_WitnessMerged ==
    /\ pc = "done"
    /\ entry = "run_all_agents"
    /\ Len(data) = 2

\* C9: over a snapshot with no incident, or one that yields no breach or no
\* inconsistency (of any size, a single incident included), every component
\* completes without raising, and the sections of the report are well formed:
\* empty lists and a percentage of 0.
C9_EmptyCasesComplete ==
    LET rule(row) ==
            \/ (row.Impact_enc = 3 /\ row.Urgency_enc = 1 /\ row.Priority_enc # 1)
            \/ (row.Impact_enc = 1 /\ row.Urgency_enc = 3 /\ row.Priority_enc # 3)
        parseable == \A n \in 1..Len(data) : data[n].Open_Time__ # Unparseable
        no_inconsistency == \A n \in 1..Len(data) : ~rule(data[n])
        no_breach == CheckSlaBreach(data, AgentStrDefinitions(sla_definitions)).total_sla_breaches = 0
    IN  (/\ entry \in {"run_all_agents", "SLAPriorityAgent.run"}
         /\ pc # "sla_init"
         /\ parseable
         /\ (Len(data) = 0 \/ no_inconsistency \/ no_breach))
        => /\ \A k \in (DOMAIN outputs) \cap {"sla_breach", "inconsistencies", "weekly"} :
                 ~IsRaised(outputs[k])
           /\ SlaAgentKey \in DOMAIN sla_output =>
                 LET rep == sla_output[SlaAgentKey]
                 IN  /\ rep.sla_breach.total_sla_breaches = 0 =>
                            /\ rep.breach_distribution = <<>>
                            /\ rep.time_series.breaches = <<>>
                            /\ rep.severity_distribution.breaches = <<>>
                            /\ rep.sla_breach.sla_breach_percentage.num = 0
                     /\ rep.inconsistencies = <<>> =>
                            /\ rep.time_series.inconsistencies = <<>>
                            /\ rep.severity_distribution.inconsistencies = <<>>

-----------------------------------------------------------------------------
(* SLAPriorityAgent(sla_definitions=...).run over snapshots with breaches *)

\* incidents of four (priority, impact) pairs that breach the custom table,
\* and one that does not
ReportRows ==
    {Row(1, 1, 3, 1, 192, 0),
     Row(1, 2, 3, 1, 128, 7),
     Row(1, 2, 1, 1, 64, 8),
     Row(1, 3, 2, 2, 96, 15),
     Row(1, 3, 2, 2, 32, 0)}

ReportSnapshots == UNION {Snapshots(ReportRows, ReportRows, n) : n \in 0..MaxReportRows}

\* the agent has been constructed with the custom table; run is about to start
InitReport ==
    /\ data \in ReportSnapshots
    /\ entry = "SLAPriorityAgent.run"
    /\ sla_definitions = SlaAgentInit(CustomSlaArgument)
    /\ str_sla_definitions = EmptyDict
    /\ pc = "sla_run"
    /\ row_i = 0
    /\ breaches = <<>>
    /\ breached_details = <<>>
    /\ total_sla_breaches = 0
    /\ weekly = <<>>
    /\ inconsistencies = <<>>
    /\ NoAgent
    /\ ret = NoError

NextReport ==
    \/ SlaAgentStart
    \/ TaskSlaBreach
    \/ TaskInconsistencies
    \/ SlaAgentJoin

SpecReport == InitReport /\ [][NextReport]_vars

-----------------------------------------------------------------------------
(* Statements about the breach distribution *)

\* SLAPriorityAgent.run has returned its report
ReportReturned == pc = "done" /\ entry = "SLAPriorityAgent.run"

RECURSIVE SumBreachCounts(_)
SumBreachCounts(dist) ==
    IF dist = <<>> THEN 0 ELSE Head(dist).breach_count + SumBreachCounts(Tail(dist))

\* the first min(3, number of entries) entries
TopSlice(dist) == SubSeq(dist, 1, IF Len(dist) < 3 THEN Len(dist) ELSE 3)

\* dist is the distribution of the breach details: one entry per distinct
\* (priority, impact) pair, with its number of details, by descending count
IsDistributionOf(dist, details) ==
    LET pairs == {<<details[n].Priority_enc, details[n].Impact_enc>> : n \in 1..Len(details)}
    IN  /\ Len(dist) = Cardinality(pairs)
        /\ \A pr \in pairs :
               \E k \in 1..Len(dist) :
                  /\ dist[k].Priority_enc = pr[1]
                  /\ dist[k].Impact_enc = pr[2]
                  /\ dist[k].breach_count =
                        Cardinality({n \in 1..Len(details) :
                            /\ details[n].Priority_enc = pr[1]
                            /\ details[n].Impact_enc = pr[2]})
        /\ SumBreachCounts(dist) = Len(details)
        /\ \A k \in 1..(Len(dist) - 1) : dist[k].breach_count >= dist[k + 1].breach_count
        /\ (details = <<>> => dist = <<>>)

\* the sections of the report, other than the distribution, that hold a list
OtherListSections == {"inconsistencies"}

\* C12 as stated: the report holds the distribution of the breach details
\* and, in a section of its own, the top-3 slice of that distribution.
C12_ReportExposesTop3 ==
    ReportReturned =>
        LET rep == ret[SlaAgentKey]
        IN  /\ IsDistributionOf(rep.breach_distribution, rep.sla_breach.breached_details)
            /\ \E f \in OtherListSections \cap DOMAIN rep :
                   rep[f] = TopSlice(rep.breach_distribution)

\* C12 amended: the report holds the distribution of the breach details in
\* its section breach_distribution; the top-3 slice, the first
\* min(3, number of entries) entries of that distribution, is handed to the
\* summary prompt as top_breaching_combinations and is no section of the
\* report, whose sections are summary, sla_breach, inconsistencies,
\* breach_distribution, time_series and severity_distribution; with no
\* breach detail the distribution and the slice are empty.
C12_DistributionAndPromptTop3 ==
    ReportReturned =>
        LET rep == ret[SlaAgentKey]
            details == rep.sla_breach.breached_details
            dist == rep.breach_distribution
            top == rep.summary.summary_of.top_breaching_combinations
        IN  /\ IsDistributionOf(dist, details)
            /\ top = TopSlice(dist)
            /\ (details = <<>> => top = <<>>)
            /\ DOMAIN rep = {"summary", "sla_breach", "inconsistencies",
                             "breach_distribution", "time_series",
                             "severity_distribution"}

\* a report over four breaching pairs: the slice leaves an entry out
C12_Witness ==
    /\ ReportReturned
    /\ Len(ret[SlaAgentKey].breach_distribution) = 4
    /\ Len(ret[SlaAgentKey].summary.summary_of.top_breaching_combinations) = 3

\* a report whose distribution is not in the order of its pairs
C12_WitnessReordered ==
    /\ ReportReturned
    /\ Len(ret[SlaAgentKey].breach_distribution) = 2
    /\ ret[SlaAgentKey].breach_distribution[1].Priority_enc = 3
    /\ ret[SlaAgentKey].breach_distribution[1].breach_count = 2

====
